---------------------------- MODULE Spec2Model ----------------------------
(***************************************************************************)
(* A model of the gameplay systems of glatformer:                          *)
(*   src/src/player.rs : is_grounded, movement, hook                       *)
(*   src/src/main.rs   : keep_upright_impl, keep_upright, player_movement, *)
(*                       world_cursor, pan_camera, zoom_camera             *)
(*                                                                         *)
(* Numbers.  f32 values are modelled by integers:                          *)
(*   - positions and ray distances in whole world units of 100 (the player *)
(*     of setup() at (100,100) is Vec(1,1), the 5000.0 ray range is 50);   *)
(*   - unit vectors and points computed from them in fixed point, Q parts  *)
(*     per unit;                                                           *)
(*   - NaN is a value of its own (field nan), because the code's           *)
(*     behaviour on a zero-length aim direction depends on it.             *)
(* A panic (assert!, unwrap on Err) ends the process: panicked becomes     *)
(* TRUE and no system runs afterwards.                                     *)
(***************************************************************************)
EXTENDS Integers, FiniteSets, Sequences

VARIABLES
    playerPresent,  \* the Query<.., With<Player>> yields an entity
    playerPos,      \* Transform.translation (x, y) of the player
    coords,         \* Res<MyWorldCoords>: the cached world cursor
    pointer,        \* the pointer as world_cursor saw it in its last tick
    rightHeld,      \* ButtonInput<MouseButton>.pressed(Right) in the last frame
    rightJust,      \* ButtonInput<MouseButton>.just_pressed(Right) in the last frame
    current,        \* hook's Local<Option<(Entity, Entity)>>
    anchors,        \* live entities spawned as (RigidBody::Static, Position)
    joints,         \* live entities spawned as DistanceJoint
    nextId,         \* next fresh Entity id handed out by Commands::spawn
    ray,            \* what cast_ray returned in the last hook tick
    rotation,       \* Transform.rotation of the player, as its angle about z
    grounded,       \* Player.is_grounded
    collisions,     \* Events<Collision>: the events of this frame's physics step
    readGround,     \* is_grounded's EventReader has consumed them
    readUpright,    \* keep_upright's EventReader has consumed them
    normalArg,      \* keep_upright_impl called on its own: the normal argument
    rotStart,       \*   the rotation before the first call
    rotFirst,       \*   the rotation after the first call
    calls,          \*   the number of calls made
    vx,             \* LinearVelocity.x of the player
    vy,             \* LinearVelocity.y of the player
    friction,       \* Friction of the player: static and dynamic coefficient
    keys,           \* ButtonInput<KeyCode>.pressed in the last frame
    spaceJust,      \* ButtonInput<KeyCode>.just_pressed(Space) in the last frame
    camScale,       \* Transform.scale of the camera (uniform: one component)
    camX,           \* Transform.translation.x of the camera
    camY,           \* Transform.translation.y of the camera
    scrollRead,     \* the MouseWheel events zoom_camera read in its last tick
    middle,         \* Input<MouseButton>.pressed(Middle) in the last frame
    eventsA,        \* Events<MouseMotion>.events_a: the older buffer
    eventsB,        \* Events<MouseMotion>.events_b: the buffer sent into
    startA,         \* events_a.start_event_count
    lastRead,       \* pan_camera's EventReader: last_event_count
    motionNow,      \* the MouseMotion events sent for the frame in progress
    camPhase,       \* where the frame is: "winit" (input) or "update"
    panicked,       \* a system panicked: the app is gone
    ran,            \* the system that made the last step
    arm             \* the arm of hook's match taken in the last step

hookVars == <<playerPresent, playerPos, coords, pointer, rightHeld, rightJust,
              current, anchors, joints, nextId, ray, arm>>

contactVars == <<rotation, grounded, collisions, readGround, readUpright>>

uprightVars == <<normalArg, rotStart, rotFirst, calls>>

moveVars == <<vx, vy, friction, keys, spaceJust>>

motionVars == <<eventsA, eventsB, startA, lastRead, motionNow, camPhase>>

cameraVars == <<camScale, camX, camY, scrollRead, middle, motionVars>>

vars == <<hookVars, contactVars, uprightVars, moveVars, cameraVars, panicked,
          ran>>

---------------------------------------------------------------------------
(* Bounds of the model *)

\* player positions are (1 + 3i, 1 + 4j), i \in 0..MaxCoord, j \in 0..1
MaxCoord == 1
\* ray hit distances are 5k, k \in 0..MaxToi
MaxToi == 2
\* a physics step emits at most this many Collision events
MaxEvents == 2
\* a Collision event holds at most this many manifolds
MaxManifolds == 2
\* keep_upright_impl on its own: rotations and normals lie within MaxWobble
\* milliradians of a multiple of a quarter turn
MaxWobble == 11
\* keep_upright_impl on its own: it is called at most this many times
MaxCalls == 2
\* a MouseWheel event scrolls by at most this many lines or pixels
MaxScrollY == 3
\* zoom_camera reads at most this many MouseWheel events in a tick
MaxScrollEvents == 2
\* zoom_camera runs while the scale is at most MaxZoomOut times the initial one
MaxZoomOut == 2
\* at most this many MouseMotion events are sent in a run
MaxMotion == 3
\* the physics step leaves the player with a horizontal velocity of 50 k,
\* |k| <= MaxVelSteps, or of exactly max_speed either way
MaxVelSteps == 24
\* the physics step leaves the player with a vertical velocity of 300 k,
\* |k| <= MaxVySteps
MaxVySteps == 1
\* movement runs only while |velocity.y| is at most this many jump impulses
MaxJumps == 2
\* hook spawns at most this many entities in one run
MaxSpawns == 4

---------------------------------------------------------------------------
(* Vec2 arithmetic *)

\* normalized vectors are kept in fixed point, Q parts per unit
Q == 1000

Vec(a, b) == [x |-> a, y |-> b, nan |-> FALSE]

NaNVec == [x |-> 0, y |-> 0, nan |-> TRUE]

Sub(a, b) == IF a.nan \/ b.nan THEN NaNVec ELSE Vec(a.x - b.x, a.y - b.y)

RECURSIVE SqrtBetween(_, _, _)
SqrtBetween(n, lo, hi) ==
    IF lo >= hi THEN lo
    ELSE LET mid == (lo + hi + 1) \div 2
         IN  IF mid * mid <= n THEN SqrtBetween(n, mid, hi)
                               ELSE SqrtBetween(n, lo, mid - 1)

\* floor of the square root
ISqrt(n) == SqrtBetween(n, 0, 46340)

\* Vec2::length, in Q parts per unit
LengthQ(v) == ISqrt((v.x * v.x + v.y * v.y) * Q * Q)

\* Vec2::normalize: self * (1 / length); a zero vector gives 0 * inf = NaN.
\* The result is in Q parts per unit.
Normalize(v) ==
    LET part(c) == IF c < 0 THEN -((-c * Q * Q) \div LengthQ(v))
                           ELSE (c * Q * Q) \div LengthQ(v)
    IN  IF v.nan \/ LengthQ(v) = 0 THEN NaNVec ELSE Vec(part(v.x), part(v.y))

\* Dir2::try_from(dir): Err for a NaN (or zero, or infinite) length
DirIsOk(dir) == ~dir.nan /\ (dir.x # 0 \/ dir.y # 0)

\* the hit point without the hit distance: pos + dir
HitPointUnitAway(pos, dir, toi) == Vec(pos.x * Q + dir.x, pos.y * Q + dir.y)

\* pos + dir * time_of_impact, in Q parts per unit
HitPoint(pos, dir, toi) == Vec(pos.x * Q + dir.x * toi, pos.y * Q + dir.y * toi)

---------------------------------------------------------------------------
(* The values the environment supplies *)

Positions == {Vec(1 + 3 * i, 1 + 4 * j) : i \in 0..MaxCoord, j \in 0..1}

\* world-cursor values: the default (0,0) and every player position
Cursors == {Vec(0, 0)} \cup Positions

\* max_time_of_impact of cast_ray
MaxRange == 50

Tois == {t \in {5 * k : k \in 0..MaxToi} : t <= MaxRange}

NoCast == [cast |-> FALSE, hit |-> FALSE, toi |-> 0]
Miss == [cast |-> TRUE, hit |-> FALSE, toi |-> 0]
Hit(t) == [cast |-> TRUE, hit |-> TRUE, toi |-> t]

\* Option<RayHitData> as cast_ray may return it
RayOutcomes == {Miss} \cup {Hit(t) : t \in Tois}

\* Entity ids in the order setup() spawns: the camera is 0, the first cube 2
PlayerEntity == 1
FloorEntity == 3
RampEntity == 4
\* the first id Commands::spawn hands out after setup()
FirstSpawnId == 5

None == [some |-> FALSE, hook |-> 0, rope |-> 0]
Some(h, r) == [some |-> TRUE, hook |-> h, rope |-> r]

---------------------------------------------------------------------------
(* hook: the Grapple Controller *)

\* commands.entity(e).despawn()
Despawn(set, e) == {b \in set : b.id # e}

\* Attach without *current = Some((hook, rope))
AttachForgets(dir, hit) ==
    LET hookId == nextId
        ropeId == nextId + 1
    IN  /\ ropeId < FirstSpawnId + MaxSpawns
        /\ anchors' = anchors \cup
               {[id |-> hookId, pos |-> HitPoint(playerPos, dir, hit.toi)]}
        /\ joints' = joints \cup
               {[id |-> ropeId, entity1 |-> PlayerEntity, entity2 |-> hookId,
                 rest |-> hit.toi]}
        /\ nextId' = nextId + 2
        /\ UNCHANGED current

\* the (None, true) arm once the ray has hit
Attach(dir, hit) ==
    LET hookId == nextId
        ropeId == nextId + 1
    IN  /\ ropeId < FirstSpawnId + MaxSpawns
        /\ anchors' = anchors \cup
               {[id |-> hookId, pos |-> HitPoint(playerPos, dir, hit.toi)]}
        /\ joints' = joints \cup
               {[id |-> ropeId, entity1 |-> PlayerEntity, entity2 |-> hookId,
                 rest |-> hit.toi]}
        /\ nextId' = nextId + 2
        /\ current' = Some(hookId, ropeId)

\* Release without commands.entity(hook).despawn()
ReleaseRopeOnly ==
    /\ joints' = Despawn(joints, current.rope)
    /\ current' = None
    /\ UNCHANGED <<anchors, nextId>>

\* Release without *current = None
ReleaseKeepsCurrent ==
    /\ joints' = Despawn(joints, current.rope)
    /\ anchors' = Despawn(anchors, current.hook)
    /\ UNCHANGED <<current, nextId>>

\* the (Some((hook, rope)), false) arm
Release ==
    /\ joints' = Despawn(joints, current.rope)
    /\ anchors' = Despawn(anchors, current.hook)
    /\ current' = None
    /\ UNCHANGED nextId

\* mouse.just_pressed(MouseButton::Right) in place of pressed
FireJustPressed(held) == held /\ ~rightHeld

\* mouse.pressed(MouseButton::Right), the second component matched on;
\* held is the button's state in this frame
FirePressed(held) == held

\* the frame's update of ButtonInput<MouseButton> for the right button
MouseInput(held) ==
    /\ rightHeld' = held
    /\ rightJust' = (held /\ ~rightHeld)

\* the player query taken to yield an entity always
PlayerAlways == TRUE

\* q_player.iter().next() (iter_mut() in movement) is Some
PlayerFound == playerPresent

HookSystem(held) ==
    /\ MouseInput(held)
    /\ ran' = "hook"
    /\ UNCHANGED <<playerPresent, playerPos, coords, pointer, contactVars,
                   uprightVars, moveVars, cameraVars>>
    /\ IF ~PlayerFound
       THEN \* None => return
            /\ ray' = NoCast
            /\ arm' = "absent"
            /\ UNCHANGED <<current, anchors, joints, nextId, panicked>>
       ELSE IF ~current.some /\ FirePressed(held)
       THEN LET dir == Normalize(Sub(coords, playerPos))
            IN  IF ~DirIsOk(dir)
                THEN \* Dir2::try_from(dir).unwrap() panics
                     /\ panicked' = TRUE
                     /\ ray' = NoCast
                     /\ arm' = "panic"
                     /\ UNCHANGED <<current, anchors, joints, nextId>>
                ELSE /\ UNCHANGED panicked
                     /\ \E cast \in RayOutcomes :
                            /\ ray' = cast
                            /\ IF cast.hit
                               THEN /\ Attach(dir, cast)
                                    /\ arm' = "attach"
                               ELSE /\ arm' = "miss"
                                    /\ UNCHANGED <<current, anchors, joints,
                                                   nextId>>
       ELSE IF current.some /\ ~FirePressed(held)
       THEN /\ Release
            /\ ray' = NoCast
            /\ arm' = "release"
            /\ UNCHANGED panicked
       ELSE /\ ray' = NoCast
            /\ arm' = "other"
            /\ UNCHANGED <<current, anchors, joints, nextId, panicked>>

Hook ==
    /\ ~panicked
    /\ \E held \in BOOLEAN : HookSystem(held)

---------------------------------------------------------------------------
(* world_cursor: the cached world position of the pointer *)

\* Option<Vec2>: the pointer unprojected to world space, None when it is
\* outside the window
NoPointer == [some |-> FALSE, at |-> Vec(0, 0)]

PointerAt(w) == [some |-> TRUE, at |-> w]

Pointers == {NoPointer} \cup {PointerAt(w) : w \in Cursors}

\* the cache set back to MyWorldCoords::default() when there is no position
CursorOrDefault(p) == IF p.some THEN p.at ELSE Vec(0, 0)

\* if let Some(world_position) = .. { mycoords.0 = world_position; }
CursorAfter(p) == IF p.some THEN p.at ELSE coords

WorldCursorSystem(p) ==
    /\ coords' = CursorAfter(p)
    /\ pointer' = p
    /\ ran' = "world_cursor"
    /\ arm' = "none"
    /\ UNCHANGED <<playerPresent, playerPos, rightHeld, rightJust, current,
                   anchors, joints, nextId, ray, panicked, contactVars,
                   uprightVars, moveVars, cameraVars>>

WorldCursor ==
    /\ ~panicked
    /\ \E p \in Pointers : WorldCursorSystem(p)

---------------------------------------------------------------------------
(* The physics engine and the rest of the app, as far as hook sees them *)

\* the physics step moves the player
PhysicsStep ==
    /\ ~panicked
    /\ playerPresent
    /\ \E p \in Positions : playerPos' = p
    /\ ran' = "physics"
    /\ arm' = "none"
    /\ UNCHANGED <<playerPresent, coords, pointer, rightHeld, rightJust, current,
                   anchors, joints, nextId, ray, panicked, contactVars,
                   uprightVars, moveVars, cameraVars>>

\* the player entity is despawned, or spawned again
ActorChange ==
    /\ ~panicked
    /\ playerPresent' = ~playerPresent
    /\ ran' = "actor"
    /\ arm' = "none"
    /\ UNCHANGED <<playerPos, coords, pointer, rightHeld, rightJust, current,
                   anchors, joints, nextId, ray, panicked, contactVars,
                   uprightVars, moveVars, cameraVars>>

---------------------------------------------------------------------------
(* Angles.  A unit Vec2 is modelled by its polar angle and a rotation about *)
(* z by its angle, both in milliradians.                                    *)

\* std::f32::consts::PI, rounded to a multiple of 12 milliradians, so that
\* PI/2, PI/3, PI/4 and PI/6 are whole
PI == 3144

TwoPi == 2 * PI

HalfPi == PI \div 2

Abs(a) == IF a < 0 THEN -a ELSE a

\* the angle in (-PI, PI] of the same direction
WrapPi(a) ==
    LET m == a % TwoPi
    IN  IF m > PI THEN m - TwoPi ELSE m

\* f32::atan2(normal.y, normal.x)
Atan2(normal) == WrapPi(normal)

\* -normal
Negate(normal) == WrapPi(normal + PI)

\* Rotation * Vec2 (global_normal1, global_normal2)
Rotate(rot, normal) == WrapPi(rot + normal)

\* normal.dot(Vec2::Y) > 0.5: sin > 1/2, the angle strictly between PI/6
\* and 5 PI/6
DotUpAboveHalf(normal) ==
    LET m == normal % TwoPi
    IN  6 * m > PI /\ 6 * m < 5 * PI

\* Quat::angle_between of two rotations about z: acos(|dot|) * 2, in [0, PI]
AngleBetween(a, b) ==
    LET d == (a - b) % TwoPi
    IN  IF d > PI THEN TwoPi - d ELSE d

---------------------------------------------------------------------------
(* keep_upright_impl and keep_upright: the Orientation Stabilizer *)

\* angle.abs() < 0.01
SnapBelow == 10

\* angle_between(..) > 0.005
Hysteresis == 5

\* keep_upright_impl with ent.rotation *= new_angle in place of the assignment
KeepUprightImplRelative(rot, normal) ==
    LET angle == Atan2(normal) + HalfPi
    IN  IF AngleBetween(rot, angle) > Hysteresis THEN rot + angle ELSE rot

\* keep_upright_impl with atan2(normal.x, normal.y): the angle measured from
\* the y axis
KeepUprightImplFromY(rot, normal) ==
    LET raw == WrapPi(HalfPi - Atan2(normal))
        angle == IF Abs(raw) < SnapBelow THEN 0 ELSE raw
    IN  IF AngleBetween(rot, angle) > Hysteresis THEN angle ELSE rot

\* the rotation keep_upright_impl leaves in ent
KeepUprightImpl(rot, normal) ==
    LET raw == Atan2(normal) + HalfPi
        angle == IF Abs(raw) < SnapBelow THEN 0 ELSE raw
    IN  IF AngleBetween(rot, angle) > Hysteresis THEN angle ELSE rot

\* assert!(contacts.manifolds.len() >= 1)
AssertSomeManifold(contacts) == Len(contacts.manifolds) >= 1

\* assert!(contacts.manifolds.len() == 1)
AssertOneManifold(contacts) == Len(contacts.manifolds) = 1

\* players.get_mut(e) / entities.get_mut(e) is Ok: only the player carries
\* Player and KeepUpright
IsWatched(e) == playerPresent /\ e = PlayerEntity

\* the body of keep_upright's loop with a plain else for the second entity
UprightStepElse(contacts, rot) ==
    LET contact == contacts.manifolds[1]
    IN  IF IsWatched(contacts.entity1)
        THEN KeepUprightImpl(rot, Rotate(rot, contact.normal1))
        ELSE KeepUprightImpl(rot, Rotate(rot, contact.normal2))

\* the body of keep_upright's loop for one event that passed the assert
UprightStep(contacts, rot) ==
    LET contact == contacts.manifolds[1]
    IN  IF IsWatched(contacts.entity1)
        THEN KeepUprightImpl(rot, Rotate(rot, contact.normal1))
        ELSE IF IsWatched(contacts.entity2)
        THEN KeepUprightImpl(rot, Rotate(rot, contact.normal2))
        ELSE rot

\* for Collision(contacts) in collisions.read() { .. } of keep_upright
RECURSIVE UprightLoop(_, _)
UprightLoop(evs, rot) ==
    IF evs = <<>> THEN [rot |-> rot, panic |-> FALSE]
    ELSE IF ~AssertOneManifold(Head(evs)) THEN [rot |-> rot, panic |-> TRUE]
    ELSE UprightLoop(Tail(evs), UprightStep(Head(evs), rot))

---------------------------------------------------------------------------
(* is_grounded: the Ground Detector *)

\* no reset at the start of the tick
KeepGrounded(g) == g

\* player.is_grounded = false, for every player
ResetGrounded(g) == FALSE

\* the body of is_grounded's loop for one event that passed the assert
GroundStep(contacts, rot, g) ==
    LET contact == contacts.manifolds[1]
    IN  IF IsWatched(contacts.entity1)
        THEN g \/ DotUpAboveHalf(Negate(Rotate(rot, contact.normal1)))
        ELSE IF IsWatched(contacts.entity2)
        THEN g \/ DotUpAboveHalf(Negate(Rotate(rot, contact.normal2)))
        ELSE g

\* for Collision(contacts) in collisions.read() { .. } of is_grounded
RECURSIVE GroundLoop(_, _, _)
GroundLoop(evs, rot, g) ==
    IF evs = <<>> THEN [grounded |-> g, panic |-> FALSE]
    ELSE IF ~AssertOneManifold(Head(evs)) THEN [grounded |-> g, panic |-> TRUE]
    ELSE GroundLoop(Tail(evs), rot, GroundStep(Head(evs), rot, g))

---------------------------------------------------------------------------
(* The collision events of one physics step *)

\* world-space contact normals, outward from the first entity: straight
\* down, straight up, 30 degrees below the horizontal (its opposite is on
\* the edge of the grounded cone, dot = 0.5) and 60 degrees below (inside)
WorldNormals == {-HalfPi, HalfPi, -(PI \div 6), -(PI \div 3)}

\* the rotation of a body when the physics step runs
RotationOf(e) ==
    IF e = PlayerEntity THEN rotation
    ELSE IF e = RampEntity THEN PI \div 4
    ELSE 0

\* a manifold: the normal in the local space of each entity
Manifold(w, e1, e2) ==
    [normal1 |-> WrapPi(w - RotationOf(e1)),
     normal2 |-> WrapPi(w + PI - RotationOf(e2))]

ContactPairs ==
    {<<PlayerEntity, FloorEntity>>, <<FloorEntity, PlayerEntity>>,
     <<FloorEntity, RampEntity>>}

\* the events a step may emit; the manifolds of one event have normals a
\* quarter turn apart
CollisionEvents ==
    {[entity1 |-> p[1], entity2 |-> p[2],
      manifolds |-> [i \in 1..m |-> Manifold(w + (i - 1) * HalfPi, p[1], p[2])]] :
        p \in ContactPairs, w \in WorldNormals, m \in 0..MaxManifolds}

EventLists == UNION {[1..n -> CollisionEvents] : n \in 0..MaxEvents}

contactFrame == <<hookVars, uprightVars, moveVars, cameraVars>>

\* the physics step of a frame writes its Collision events
PhysicsContacts ==
    /\ ~panicked
    /\ readGround /\ readUpright /\ collisions = <<>>
    /\ \E evs \in EventLists : collisions' = evs
    /\ readGround' = FALSE
    /\ readUpright' = FALSE
    /\ ran' = "physics"
    /\ UNCHANGED <<rotation, grounded, panicked, contactFrame>>

\* Events::update between frames: the events every reader has seen are dropped
EventUpdate ==
    /\ ~panicked
    /\ readGround /\ readUpright /\ collisions # <<>>
    /\ collisions' = <<>>
    /\ ran' = "event_update"
    /\ UNCHANGED <<rotation, grounded, readGround, readUpright, panicked,
                   contactFrame>>

IsGrounded ==
    /\ ~panicked
    /\ ~readGround
    /\ LET r == GroundLoop(collisions, rotation, ResetGrounded(grounded))
       IN  /\ grounded' = r.grounded
           /\ panicked' = r.panic
    /\ readGround' = TRUE
    /\ ran' = "is_grounded"
    /\ UNCHANGED <<rotation, collisions, readUpright, contactFrame>>

KeepUpright ==
    /\ ~panicked
    /\ ~readUpright
    /\ LET r == UprightLoop(collisions, rotation)
       IN  /\ rotation' = r.rot
           /\ panicked' = r.panic
    /\ readUpright' = TRUE
    /\ ran' = "keep_upright"
    /\ UNCHANGED <<grounded, collisions, readGround, contactFrame>>

---------------------------------------------------------------------------
(* keep_upright_impl called on its own, on every rotation and normal *)

QuarterTurns == {-HalfPi, 0, HalfPi, PI}

Wobbles == -MaxWobble..MaxWobble

StartRotations == {b + d : b \in QuarterTurns, d \in Wobbles}

NormalArgs == {WrapPi(b + d) : b \in QuarterTurns, d \in Wobbles}

CallKeepUprightImpl ==
    /\ calls < MaxCalls
    /\ rotation' = KeepUprightImpl(rotation, normalArg)
    /\ rotFirst' = IF calls = 0 THEN rotation' ELSE rotFirst
    /\ calls' = calls + 1
    /\ ran' = "keep_upright_impl"
    /\ UNCHANGED <<normalArg, rotStart, grounded, collisions, readGround,
                   readUpright, panicked, hookVars, moveVars,
                   cameraVars>>

---------------------------------------------------------------------------
(* movement and player_movement: the Locomotion Controller *)

\* let accel = 100.0
Accel == 100

\* let max_speed = 1000.0
MaxSpeed == 1000

\* Vec2::Y * 600.0
JumpImpulse == 600

\* f32::clamp
Clamp(v, lo, hi) == IF v < lo THEN lo ELSE IF v > hi THEN hi ELSE v

\* input: -Vec2::X for A or Left, +Vec2::X for D or Right (x component)
InputX(k) == (IF k.right THEN 1 ELSE 0) - (IF k.left THEN 1 ELSE 0)

\* the acceleration with the test of the first branch turned round:
\* input.dot(**velocity) > 0.0
AccelerateFlipped(v, input) ==
    IF input * v > 0 THEN v + input * Accel
    ELSE IF Abs(v) < MaxSpeed THEN Clamp(v + input * Accel, -MaxSpeed, MaxSpeed)
    ELSE v

\* the acceleration with the clamp after the slow-down branch as well
AccelerateBrakeClamped(v, input) ==
    IF input * v < 0 THEN Clamp(v + input * Accel, -MaxSpeed, MaxSpeed)
    ELSE IF Abs(v) < MaxSpeed THEN Clamp(v + input * Accel, -MaxSpeed, MaxSpeed)
    ELSE v

\* the acceleration without velocity.x.clamp(-max_speed, max_speed)
AccelerateNoClamp(v, input) ==
    IF input * v < 0 THEN v + input * Accel
    ELSE IF Abs(v) < MaxSpeed THEN v + input * Accel
    ELSE v

\* movement, from let accel: velocity.x after the tick (delta_v.y is 0)
Accelerate(v, input) ==
    IF input * v < 0 THEN v + input * Accel
    ELSE IF Abs(v) < MaxSpeed THEN Clamp(v + input * Accel, -MaxSpeed, MaxSpeed)
    ELSE v

\* player_movement, from let accel: the same lines in main.rs
AccelerateMain(v, input) ==
    IF input * v < 0 THEN v + input * Accel
    ELSE IF Abs(v) < MaxSpeed THEN Clamp(v + input * Accel, -MaxSpeed, MaxSpeed)
    ELSE v

\* the keys held in one frame: A or Left, D or Right, Space, ShiftLeft
KeyStates == [left : BOOLEAN, right : BOOLEAN, space : BOOLEAN, shift : BOOLEAN]

\* the frame's update of ButtonInput<KeyCode>
KeyInput(k) ==
    /\ keys' = k
    /\ spaceJust' = (k.space /\ ~keys.space)

moveFrame == <<hookVars, contactVars, uprightVars, cameraVars>>

\* the jump test with pressed in place of just_pressed
JumpGateHeld(k) == k.space /\ grounded

\* keys.just_pressed(KeyCode::Space) && player.is_grounded
JumpGate(k) == (k.space /\ ~keys.space) /\ grounded

\* the slide with its else branch left out: friction is never restored
SlideFrictionNoElse(k) ==
    IF k.shift THEN [static |-> 0, dynamic |-> 0] ELSE friction

\* the Slide block: both coefficients 0. with ShiftLeft pressed, else 1.
SlideFriction(k) ==
    IF k.shift THEN [static |-> 0, dynamic |-> 0]
               ELSE [static |-> 1, dynamic |-> 1]

MovementSystem(k) ==
    /\ KeyInput(k)
    /\ ran' = "movement"
    /\ IF ~PlayerFound
       THEN \* None => return
            UNCHANGED <<vx, vy, friction>>
       ELSE /\ vy' = IF JumpGate(k) THEN vy + JumpImpulse ELSE vy
            /\ friction' = SlideFriction(k)
            /\ vx' = Accelerate(vx, InputX(k))
    /\ UNCHANGED <<panicked, moveFrame>>

Movement ==
    /\ ~panicked
    /\ Abs(vy) <= MaxJumps * JumpImpulse
    /\ \E k \in KeyStates : MovementSystem(k)

\* movement with fewer inputs: no key at all, or left, jump and slide at once
FewKeyStates ==
    {[left |-> b, right |-> FALSE, space |-> b, shift |-> b] : b \in BOOLEAN}

MovementFewKeys ==
    /\ ~panicked
    /\ Abs(vy) <= MaxJumps * JumpImpulse
    /\ \E k \in FewKeyStates : MovementSystem(k)

PlayerMovementSystem(k) ==
    /\ KeyInput(k)
    /\ ran' = "player_movement"
    /\ IF ~playerPresent
       THEN UNCHANGED vx
       ELSE vx' = AccelerateMain(vx, InputX(k))
    /\ UNCHANGED <<vy, friction, panicked, moveFrame>>

PlayerMovement ==
    /\ ~panicked
    /\ \E k \in KeyStates : PlayerMovementSystem(k)

PhysicsVx ==
    {50 * k : k \in -MaxVelSteps..MaxVelSteps} \cup {MaxSpeed, -MaxSpeed}

PhysicsVy == {300 * k : k \in -MaxVySteps..MaxVySteps}

\* the physics step integrates gravity and contacts into the velocity
PhysicsVelocity ==
    /\ ~panicked
    /\ playerPresent
    /\ \E a \in PhysicsVx, b \in PhysicsVy : vx' = a /\ vy' = b
    /\ ran' = "physics"
    /\ UNCHANGED <<friction, keys, spaceJust, panicked, moveFrame>>

---------------------------------------------------------------------------
(* The camera.  Transform.scale of the camera starts at Vec3::ONE and       *)
(* zoom_camera moves it along its own direction, so it stays uniform and    *)
(* is modelled by one component, in units of 0.01/sqrt(3): the change of a  *)
(* component made by a scroll of 0.1 line (unit * amount * 0.1 with         *)
(* unit = scale.normalize()).  The translation is in screen pixels times    *)
(* that unit.                                                               *)

\* Transform::default().scale, a component of Vec3::ONE: 1.0 / (0.01/sqrt(3))
ScaleOne == 173

\* the weight of a Line event (ev.y) against a Pixel event (ev.y * 0.1)
LineWeight == 10

\* ev.y: a large scroll one way, one step the other way
ScrollYs == {-MaxScrollY, 1}

\* MouseWheel events: unit and y
ScrollEvents == [unit : {"Line", "Pixel"}, y : ScrollYs]

ScrollLists ==
    UNION {[1..n -> ScrollEvents] : n \in 0..MaxScrollEvents}

\* the map().sum() over scroll_evr.read(), in tenths of a line
RECURSIVE ScrollSum(_)
ScrollSum(evs) ==
    IF evs = <<>> THEN 0
    ELSE (IF Head(evs).unit = "Line" THEN LineWeight * Head(evs).y
                                     ELSE Head(evs).y)
         + ScrollSum(Tail(evs))

\* a component of scale.normalize(), times sqrt(3); the zero vector
\* normalizes to NaN, which is never > 0.0 in the test below
SignOf(c) == IF c > 0 THEN 1 ELSE IF c < 0 THEN -1 ELSE 0

\* the test left out: every new scale is taken
ZoomAcceptsAny(new, unit) == TRUE

\* new.dot(unit) > 0.0
ZoomAccepts(new, unit) == 3 * new * unit > 0

ZoomCameraSystem(evs) ==
    LET amount == -ScrollSum(evs)
        unit == SignOf(camScale)
        new == camScale + unit * amount
    IN  /\ camScale' = IF ZoomAccepts(new, unit) THEN new ELSE camScale
        /\ scrollRead' = evs
        /\ ran' = "zoom_camera"
        /\ UNCHANGED <<camX, camY, middle, motionVars, hookVars, contactVars,
                       uprightVars, moveVars, panicked>>

ZoomCamera ==
    /\ ~panicked
    /\ camScale <= MaxZoomOut * ScaleOne
    /\ \E evs \in ScrollLists : ZoomCameraSystem(evs)

\* MouseMotion.delta of the events the window system sends
MotionDeltas == {<<1, 0>>, <<0, 1>>, <<-2, -1>>}

\* Events::send, by the window event loop before the frame's update
WinitMotion ==
    /\ ~panicked
    /\ camPhase = "winit"
    /\ startA + Len(eventsA) + Len(eventsB) < MaxMotion
    /\ \E d \in MotionDeltas :
           /\ eventsB' = Append(eventsB, d)
           /\ motionNow' = Append(motionNow, d)
    /\ ran' = "winit"
    /\ UNCHANGED <<eventsA, startA, lastRead, camPhase, camScale, camX, camY,
                   scrollRead, middle, hookVars, contactVars, uprightVars,
                   moveVars, panicked>>

\* Events::update: swap the buffers and clear the older one
EventsUpdate ==
    /\ eventsA' = eventsB
    /\ eventsB' = <<>>
    /\ startA' = startA + Len(eventsA)

\* the First schedule of a frame: event_update_system calls Events::update,
\* or returns without it in a frame that no fixed-timestep run preceded
FirstSchedule ==
    /\ ~panicked
    /\ camPhase = "winit"
    /\ \/ EventsUpdate
       \/ UNCHANGED <<eventsA, eventsB, startA>>
    /\ camPhase' = "update"
    /\ ran' = "first"
    /\ UNCHANGED <<lastRead, motionNow, camScale, camX, camY, scrollRead,
                   middle, hookVars, contactVars, uprightVars, moveVars,
                   panicked>>

\* the events an EventReader with this last_event_count gets from read()
Unread(last) ==
    LET aIndex == IF last > startA THEN last - startA ELSE 0
        startB == startA + Len(eventsA)
        bIndex == IF last > startB THEN last - startB ELSE 0
    IN  SubSeq(eventsA, aIndex + 1, Len(eventsA))
            \o SubSeq(eventsB, bIndex + 1, Len(eventsB))

\* fold(Vec2::ZERO, |sum, x| sum + x.delta)
RECURSIVE SumDeltas(_)
SumDeltas(evs) ==
    IF evs = <<>> THEN <<0, 0>>
    ELSE LET rest == SumDeltas(Tail(evs))
         IN  <<Head(evs)[1] + rest[1], Head(evs)[2] + rest[2]>>

PanCameraSystem(held) ==
    /\ middle' = held
    /\ ran' = "pan_camera"
    /\ camPhase' = "winit"
    /\ motionNow' = <<>>
    /\ IF ~held
       THEN \* return before motion_evr.read(): the reader is not advanced
            UNCHANGED <<camX, camY, lastRead>>
       ELSE LET delta == SumDeltas(Unread(lastRead))
            IN  /\ lastRead' = startA + Len(eventsA) + Len(eventsB)
                /\ camX' = camX + (-delta[1]) * camScale
                /\ camY' = camY + delta[2] * camScale
    /\ UNCHANGED <<eventsA, eventsB, startA, camScale, scrollRead, hookVars,
                   contactVars, uprightVars, moveVars, panicked>>

PanCamera ==
    /\ ~panicked
    /\ camPhase = "update"
    /\ \E held \in BOOLEAN : PanCameraSystem(held)

---------------------------------------------------------------------------

\* after setup(): the player at (100,100), MyWorldCoords::default(),
\* Local<Option<..>> = None
InitHook ==
    /\ playerPresent = TRUE
    /\ playerPos = Vec(1, 1)
    /\ coords = Vec(0, 0)
    /\ pointer = NoPointer
    /\ rightHeld = FALSE
    /\ rightJust = FALSE
    /\ current = None
    /\ anchors = {}
    /\ joints = {}
    /\ nextId = FirstSpawnId
    /\ ray = NoCast
    /\ panicked = FALSE
    /\ ran = "setup"
    /\ arm = "none"

\* after setup(): Transform::from_xyz (no rotation), Player::default(), no
\* collision event yet
InitContact ==
    /\ rotation = 0
    /\ grounded = FALSE
    /\ collisions = <<>>
    /\ readGround = TRUE
    /\ readUpright = TRUE

\* keep_upright_impl not called on its own
InitUpright ==
    /\ normalArg = 0
    /\ rotStart = 0
    /\ rotFirst = 0
    /\ calls = 0

\* after setup(): LinearVelocity::default(), Friction::new(0.), no key held
InitMove ==
    /\ vx = 0
    /\ vy = 0
    /\ friction = [static |-> 0, dynamic |-> 0]
    /\ keys = [left |-> FALSE, right |-> FALSE, space |-> FALSE, shift |-> FALSE]
    /\ spaceJust = FALSE

\* after setup(): Camera2dBundle::default(), no input event yet
InitCamera ==
    /\ camScale = ScaleOne
    /\ camX = 0
    /\ camY = 0
    /\ scrollRead = <<>>
    /\ middle = FALSE
    /\ eventsA = <<>>
    /\ eventsB = <<>>
    /\ startA = 0
    /\ lastRead = 0
    /\ motionNow = <<>>
    /\ camPhase = "winit"

Init == InitHook /\ InitContact /\ InitUpright /\ InitMove /\ InitCamera

Next == Hook \/ WorldCursor \/ PhysicsStep \/ ActorChange

Spec == Init /\ [][Next]_vars

NextContact == PhysicsContacts \/ IsGrounded \/ KeepUpright \/ EventUpdate

SpecContact == Init /\ [][NextContact]_vars

\* every rotation and every normal keep_upright_impl may be called with
InitCalls ==
    /\ InitHook
    /\ InitMove
    /\ InitCamera
    /\ rotation \in StartRotations
    /\ normalArg \in NormalArgs
    /\ rotStart = rotation
    /\ rotFirst = rotation
    /\ calls = 0
    /\ grounded = FALSE
    /\ collisions = <<>>
    /\ readGround = TRUE
    /\ readUpright = TRUE

NextCalls == CallKeepUprightImpl

SpecUpright == InitCalls /\ [][NextCalls]_vars

\* the grounded flag is whatever is_grounded left in it
InitLocomotion ==
    /\ InitHook
    /\ InitUpright
    /\ InitMove
    /\ InitCamera
    /\ rotation = 0
    /\ grounded \in BOOLEAN
    /\ collisions = <<>>
    /\ readGround = TRUE
    /\ readUpright = TRUE

NextMove == Movement \/ PlayerMovement \/ PhysicsVelocity

SpecMove == InitLocomotion /\ [][NextMove]_vars

NextZoom == ZoomCamera

SpecZoom == Init /\ [][NextZoom]_vars

NextPan == WinitMotion \/ FirstSchedule \/ PanCamera

SpecPan == Init /\ [][NextPan]_vars

\* hook and movement while the player entity comes and goes
NextActor == Hook \/ MovementFewKeys \/ ActorChange

SpecActor == InitLocomotion /\ [][NextActor]_vars

---------------------------------------------------------------------------
(* Claims about hook, checked under Spec *)

Idle == ~current.some

Attached == current.some

\* C1: the anchor body and the distance constraint are either both alive or
\* both not alive: every live anchor is the far end of a live constraint,
\* every live constraint ends at a live anchor, and the pair recorded in
\* current is exactly what is alive.
C1_GrapplePairing ==
    /\ (anchors = {}) <=> (joints = {})
    /\ \A a \in anchors : \E j \in joints : j.entity2 = a.id
    /\ \A j \in joints : \E a \in anchors : j.entity2 = a.id
    /\ Attached => /\ \E a \in anchors : a.id = current.hook
                   /\ \E j \in joints : j.id = current.rope
    /\ Idle => (anchors = {} /\ joints = {})

\* a second link, made after the first was released
C1_Witness ==
    /\ arm = "attach"
    /\ nextId > FirstSpawnId + 2
    /\ anchors # {}
    /\ joints # {}

\* C2 as stated: after every hook tick in which the fire input is not held
\* the controller is Idle and neither the anchor nor the constraint exists,
\* whether or not the actor is present.
C2_ReleaseAlwaysDetaches ==
    (ran = "hook" /\ ~rightHeld) => (Idle /\ anchors = {} /\ joints = {})

\* C2 amended: after every hook tick in which the fire input is not held and
\* the actor is present, the controller is Idle and neither the anchor nor
\* the constraint exists; with the actor absent the tick returns early and
\* leaves the link as it was.
C2_ReleaseDetachesWhenPresent ==
    /\ (ran = "hook" /\ ~rightHeld /\ playerPresent)
           => (Idle /\ anchors = {} /\ joints = {})
    /\ (ran = "hook" /\ ~playerPresent) => arm = "absent"
    /\ arm = "absent" => ~panicked

\* a release tick that destroyed a link
C2_Witness ==
    /\ arm = "release"
    /\ ~rightHeld
    /\ playerPresent
    /\ nextId > FirstSpawnId
    /\ Idle

\* C3 as stated: the controller goes from Idle to Attached only in a tick in
\* which the fire input is held and was not held in the tick before.
C3_EdgeTriggered ==
    [][(Idle /\ Attached') => (rightHeld' /\ ~rightHeld)]_vars

\* C3 amended: the controller goes from Idle to Attached only in a hook tick
\* in which the fire input is held, the actor is present and the ray hits,
\* whether or not the input was held in the tick before; while Idle with the
\* actor present, every tick with the input held casts the ray again, and
\* the first hit attaches.
C3_LevelTriggered ==
    /\ [][(Idle /\ Attached')
              => (ran' = "hook" /\ rightHeld' /\ playerPresent /\ ray'.hit)]_vars
    /\ [][(ran' = "hook" /\ Idle /\ playerPresent /\ rightHeld' /\ ~panicked')
              => (ray'.cast /\ (ray'.hit <=> Attached'))]_vars

\* the link is made in a tick that continues a hold
C3_Witness ==
    /\ arm = "attach"
    /\ Attached
    /\ rightHeld
    /\ ~rightJust

\* C4: a hook tick that starts Idle with the fire input held and the actor
\* at the cached cursor position completes without failure and stays Idle,
\* with no anchor and no constraint.
C4_DegenerateAimNoOp ==
    [][(ran' = "hook" /\ playerPresent /\ Idle /\ rightHeld' /\ playerPos = coords)
           => (~panicked' /\ Idle' /\ anchors' = {} /\ joints' = {})]_vars

\* C14: on a tick of hook with the controller Idle, the fire input held, the
\* actor present and the ray hitting at distance d along dir (the normalized
\* vector from the actor's position pos to the world cursor), the controller
\* becomes Attached, exactly one anchor is new and it is at pos + dir * d,
\* and exactly one constraint is new: it joins the actor and that anchor and
\* its rest length is d.
C14_AttachResult ==
    [][(ran' = "hook" /\ playerPresent /\ Idle /\ rightHeld' /\ ray'.hit) =>
           LET dir == Normalize(Sub(coords, playerPos))
               d == ray'.toi
               newAnchors == anchors' \ anchors
               newJoints == joints' \ joints
           IN  /\ current'.some
               /\ anchors \subseteq anchors'
               /\ joints \subseteq joints'
               /\ newAnchors =
                      {[id |-> current'.hook,
                        pos |-> Vec(playerPos.x * Q + dir.x * d,
                                    playerPos.y * Q + dir.y * d)]}
               /\ newJoints =
                      {[id |-> current'.rope, entity1 |-> PlayerEntity,
                        entity2 |-> current'.hook, rest |-> d]}]_vars

\* a link made by a ray that hit away from the actor, along a diagonal
C14_Witness ==
    /\ arm = "attach"
    /\ ray.hit
    /\ ray.toi = 10
    /\ Cardinality(anchors) = 1
    /\ \E a \in anchors :
           /\ a.id = current.hook
           /\ a.pos.x # playerPos.x * Q
           /\ a.pos.y # playerPos.y * Q
    /\ \E j \in joints : j.id = current.rope /\ j.rest = 10

\* C17: a tick of world_cursor with the pointer outside the window leaves
\* the cached world cursor as it was; the cache changes only in a tick of
\* world_cursor with the pointer inside the window, where it becomes the
\* pointer's world position, and no step sets it back to a default.
C17_StaleCursorRetained ==
    [][/\ (ran' = "world_cursor" /\ ~pointer'.some) => coords' = coords
       /\ (ran' = "world_cursor" /\ pointer'.some) => coords' = pointer'.at
       /\ (coords' # coords) => (ran' = "world_cursor" /\ pointer'.some)]_vars

\* the pointer has left the window after the cache was set
C17_Witness ==
    /\ ran = "world_cursor"
    /\ ~pointer.some
    /\ coords # Vec(0, 0)

\* C18: at most one anchor and at most one constraint are alive in every
\* reachable state, and a tick of hook with the controller Attached and the
\* fire input held casts no ray and changes nothing: the pair in current,
\* the anchor with its position and the constraint with its rest length are
\* what they were, wherever the actor and the world cursor are by then.
C18_SingleFrozenLink ==
    [][/\ Cardinality(anchors') <= 1
       /\ Cardinality(joints') <= 1
       /\ (ran' = "hook" /\ Attached /\ rightHeld') =>
              /\ ~ray'.cast
              /\ UNCHANGED <<current, anchors, joints, nextId>>]_vars

\* a held tick after the actor and the cursor have both moved away from
\* where they were when the link was made from (100,100) towards (0,0)
C18_Witness ==
    /\ ran = "hook"
    /\ arm = "other"
    /\ Attached
    /\ rightHeld
    /\ playerPresent
    /\ playerPos # Vec(1, 1)
    /\ coords # Vec(0, 0)
    /\ anchors =
           {[id |-> current.hook,
             pos |-> HitPoint(Vec(1, 1), Normalize(Vec(-1, -1)), 10)]}
    /\ \E j \in joints : j.id = current.rope /\ j.rest = 10

---------------------------------------------------------------------------
(* Claims about is_grounded and keep_upright, checked under SpecContact *)

Relevant(c) == c.entity1 = PlayerEntity \/ c.entity2 = PlayerEntity

\* the world-space normal of the player's side of a one-manifold event
PlayerNormal(c, rot) ==
    IF c.entity1 = PlayerEntity
    THEN Rotate(rot, c.manifolds[1].normal1)
    ELSE Rotate(rot, c.manifolds[1].normal2)

\* the event involves the player and its inverted normal has dot(up) > 0.5
Qualifies(c, rot) == Relevant(c) /\ DotUpAboveHalf(Negate(PlayerNormal(c, rot)))

BadCount(c) == Len(c.manifolds) # 1

HasBad(evs) == \E i \in 1..Len(evs) : BadCount(evs[i])

\* the index of the first event whose manifold count is not one
FirstBad(evs) ==
    CHOOSE k \in 1..Len(evs) :
        BadCount(evs[k]) /\ \A i \in 1..(k - 1) : ~BadCount(evs[i])

\* C5: after every is_grounded tick that completes, the grounded flag is
\* true if and only if at least one collision event consumed in the tick
\* involves the player and has an inverted contact normal with
\* dot(normal, up) > 0.5, whatever the flag was before.
C5_GroundedRecomputed ==
    (ran = "is_grounded" /\ ~panicked)
        => (grounded <=> \E i \in 1..Len(collisions) :
                             Qualifies(collisions[i], rotation))

\* two contacts of the player in one tick, only the first qualifying
C5_Witness ==
    /\ ran = "is_grounded"
    /\ ~panicked
    /\ grounded
    /\ Len(collisions) = 2
    /\ Qualifies(collisions[1], rotation)
    /\ Relevant(collisions[2])
    /\ ~Qualifies(collisions[2], rotation)

AllIrrelevant(evs) == \A i \in 1..Len(evs) : ~Relevant(evs[i])

\* C6 as stated: a tick whose events all touch no watched entity never
\* fails and changes no grounded flag and no rotation, whatever else the
\* events contain.
C6_IrrelevantSkipped ==
    [][(ran' \in {"is_grounded", "keep_upright"} /\ AllIrrelevant(collisions))
           => /\ ~panicked'
              /\ rotation' = rotation
              /\ (ran' = "is_grounded" => ~grounded')]_vars

\* C6 amended: an event with exactly one manifold that touches no watched
\* entity never fails and changes no grounded flag and no rotation: a tick
\* of such events leaves the rotation as it was and the flag at its reset
\* value, and in a tick without failure the result is that of the other
\* events alone.
C6_IrrelevantSingleSkipped ==
    [][(ran' \in {"is_grounded", "keep_upright"} /\ ~HasBad(collisions))
           => /\ ~panicked'
              /\ AllIrrelevant(collisions)
                     => (rotation' = rotation /\ (ran' = "is_grounded" => ~grounded'))
              /\ ran' = "keep_upright"
                     => rotation' = UprightLoop(SelectSeq(collisions, Relevant),
                                                rotation).rot
              /\ ran' = "is_grounded"
                     => grounded' = GroundLoop(SelectSeq(collisions, Relevant),
                                               rotation, FALSE).grounded]_vars

\* keep_upright has read a one-manifold event between two static bodies and
\* then a contact of the player
C6_Witness ==
    /\ ran = "keep_upright"
    /\ ~panicked
    /\ Len(collisions) = 2
    /\ ~HasBad(collisions)
    /\ ~Relevant(collisions[1])
    /\ Relevant(collisions[2])
    /\ rotation # 0

\* C7: a tick of is_grounded or keep_upright panics exactly when one of the
\* events it consumes has a manifold count other than one, and then the
\* flag and the rotation are what the events before that one made them.
C7_MultiManifoldFailsFast ==
    [][/\ ran' = "is_grounded" =>
              /\ panicked' <=> HasBad(collisions)
              /\ HasBad(collisions) =>
                     (grounded' <=> \E i \in 1..(FirstBad(collisions) - 1) :
                                        Qualifies(collisions[i], rotation))
       /\ ran' = "keep_upright" =>
              /\ panicked' <=> HasBad(collisions)
              /\ HasBad(collisions) =>
                     rotation' = UprightLoop(SubSeq(collisions, 1,
                                                    FirstBad(collisions) - 1),
                                             rotation).rot
              /\ (collisions # <<>> /\ BadCount(collisions[1]))
                     => rotation' = rotation]_vars

\* keep_upright has panicked on a two-manifold contact of the player
C7_Witness ==
    /\ ran = "keep_upright"
    /\ panicked
    /\ \E i \in 1..Len(collisions) :
           /\ Relevant(collisions[i])
           /\ Len(collisions[i].manifolds) = 2
           /\ \A j \in 1..(i - 1) : ~BadCount(collisions[j])

---------------------------------------------------------------------------
(* Claims about keep_upright_impl, checked under SpecUpright *)

\* C8 as stated: given the normal pointing straight up, (0, +1), an entity
\* at zero rotation is left unchanged and an entity more than 0.005 rad
\* from zero ends the call at zero rotation.
C8_UpIsZero ==
    (calls >= 1 /\ normalArg = HalfPi)
        => /\ rotStart = 0 => rotFirst = 0
           /\ AngleBetween(rotStart, 0) > Hysteresis => rotFirst = 0

\* C8 amended: given the normal pointing straight down, (0, -1), the
\* target rotation is exactly zero: an entity at zero rotation is left
\* unchanged and an entity more than 0.005 rad from zero ends the call at
\* zero rotation.
C8_DownIsZero ==
    (calls >= 1 /\ normalArg = -HalfPi)
        => /\ rotStart = 0 => rotFirst = 0
           /\ AngleBetween(rotStart, 0) > Hysteresis => rotFirst = 0

\* a call with the straight-down normal that turned the entity to zero
C8_Witness ==
    /\ calls >= 1
    /\ normalArg = -HalfPi
    /\ AngleBetween(rotStart, 0) > Hysteresis
    /\ rotFirst = 0

\* C9: for every starting rotation and every normal, the second of two
\* calls of keep_upright_impl with the same normal changes nothing.
C9_Idempotent == (calls = 2) => (rotation = rotFirst)

\* two calls, the first of which turned the entity
C9_Witness ==
    /\ calls = 2
    /\ rotFirst # rotStart
    /\ rotation = rotFirst

---------------------------------------------------------------------------
(* Claims about movement and player_movement, checked under SpecMove *)

LocomotionTick == ran' \in {"movement", "player_movement"} /\ playerPresent

\* C10: with the horizontal velocity exactly at +max_speed (-max_speed) and
\* the input held in the same direction, one Locomotion tick leaves it
\* exactly there; with the opposite input held the velocity after the tick
\* is strictly smaller (strictly larger from -max_speed).
C10_ClampAtCap ==
    [][LocomotionTick =>
           /\ (vx = MaxSpeed /\ InputX(keys') = 1) => vx' = MaxSpeed
           /\ (vx = -MaxSpeed /\ InputX(keys') = -1) => vx' = -MaxSpeed
           /\ (vx = MaxSpeed /\ InputX(keys') = -1) => vx' < vx
           /\ (vx = -MaxSpeed /\ InputX(keys') = 1) => vx' > vx]_vars

\* a tick with the left key held that began at +max_speed
C10_Witness ==
    /\ ran = "movement"
    /\ playerPresent
    /\ InputX(keys) = -1
    /\ vx = MaxSpeed - Accel

MovementTick == ran' = "movement" /\ playerPresent

\* C11: in a tick of movement with the actor present, the vertical velocity
\* grows by exactly the jump impulse (600) when the jump key has a rising
\* edge in that tick and the grounded flag is true, and is left as it was
\* in every other case (edge while not grounded, key merely held, key up);
\* the horizontal velocity after the tick is what the horizontal input alone
\* makes of it, jump or no jump.
C11_JumpGate ==
    [][MovementTick =>
           /\ (keys'.space /\ ~keys.space /\ grounded)
                  => vy' = vy + JumpImpulse
           /\ ~(keys'.space /\ ~keys.space /\ grounded) => vy' = vy
           /\ vx' = Accelerate(vx, InputX(keys'))
           /\ (InputX(keys') = 0) => vx' = vx]_vars

\* a jump from rest on the ground
C11_Witness ==
    /\ ran = "movement"
    /\ playerPresent
    /\ spaceJust
    /\ grounded
    /\ vy = JumpImpulse

\* C15: a tick of hook or of movement in which no player entity exists does
\* not fail and changes nothing, whatever the inputs: the grapple state, the
\* live anchors and constraints, the velocity and the friction coefficients
\* are after the tick what they were before it.
C15_AbsentActorNoOp ==
    [][(~playerPresent /\ ran' \in {"hook", "movement"}) =>
           /\ ~panicked'
           /\ UNCHANGED <<current, anchors, joints, nextId>>
           /\ UNCHANGED <<vx, vy, friction>>]_vars

\* with no player: hook has run with the fire input up while Attached, then
\* movement with a direction key and the slide key held and a fresh press of
\* the jump key, and the link, the velocity and the friction are still there
C15_Witness ==
    /\ ~playerPresent
    /\ ran = "movement"
    /\ arm = "absent"
    /\ ~rightHeld
    /\ Attached
    /\ anchors # {}
    /\ InputX(keys) = -1
    /\ keys.shift
    /\ spaceJust
    /\ grounded
    /\ vx = -Accel
    /\ vy = JumpImpulse
    /\ friction.static = 1

\* C16: after every tick of movement with the actor present the static and
\* the dynamic friction coefficient are equal, both 0 if the slide key is held
\* in that tick and both 1 if it is not, whatever they were before the tick.
C16_SlideOverwritesFriction ==
    [][MovementTick =>
           /\ friction'.static = friction'.dynamic
           /\ friction'.static = IF keys'.shift THEN 0 ELSE 1]_vars

\* the first tick without the slide key: the 0 of setup() is overwritten
C16_Witness ==
    /\ ran = "movement"
    /\ playerPresent
    /\ ~keys.shift
    /\ friction = [static |-> 1, dynamic |-> 1]

\* C19: in a Locomotion tick whose horizontal input is not zero and opposes
\* the horizontal velocity (input.x * vx < 0), the new horizontal velocity is
\* exactly vx + input.x * 100, with no clamp: also from beyond max_speed, and
\* also from less than 100, where the result has the sign of the input.
C19_UncappedBraking ==
    [][(LocomotionTick /\ InputX(keys') * vx < 0) =>
           vx' = vx + InputX(keys') * Accel]_vars

\* a tick of braking that began 200 beyond max_speed and ended beyond it
C19_Witness ==
    /\ ran = "movement"
    /\ playerPresent
    /\ InputX(keys) = -1
    /\ vx = MaxSpeed + Accel

\* C20: for every horizontal velocity vx and every combination of direction
\* keys, the velocity vx' after one Locomotion tick has |vx'| at most the
\* larger of |vx| and max_speed, so that a velocity within max_speed stays
\* within it; and with no direction key held, or both, vx' = vx.
C20_NeverPastCap ==
    [][LocomotionTick =>
           /\ Abs(vx') <= (IF Abs(vx) > MaxSpeed THEN Abs(vx) ELSE MaxSpeed)
           /\ (Abs(vx) <= MaxSpeed) => (Abs(vx') <= MaxSpeed)
           /\ (keys'.left = keys'.right) => vx' = vx]_vars

\* a tick with the right key held that ended exactly at max_speed, the slide
\* and jump keys held as well
C20_Witness ==
    /\ ran = "movement"
    /\ playerPresent
    /\ keys.right
    /\ ~keys.left
    /\ keys.shift
    /\ keys.space
    /\ vx = MaxSpeed

---------------------------------------------------------------------------
(* Claims about the camera, checked under SpecZoom and SpecPan *)

\* C12: after every tick of zoom_camera, whatever scroll events it read, the
\* camera scale is not zero and has the sign it had before the tick, which
\* is the sign setup() gave it; and a tick whose computed new scale is zero
\* or of the opposite sign leaves the scale as it was.
C12_ZoomKeepsSign ==
    [][ran' = "zoom_camera" =>
           LET new == camScale - SignOf(camScale) * ScrollSum(scrollRead')
           IN  /\ camScale' # 0
               /\ SignOf(camScale') = SignOf(camScale)
               /\ SignOf(camScale') = SignOf(ScaleOne)
               /\ (new = 0 \/ SignOf(new) # SignOf(camScale))
                      => camScale' = camScale]_vars

\* a tick that scrolled in further than the scale allows, and was rejected
C12_Witness ==
    /\ ran = "zoom_camera"
    /\ scrollRead # <<>>
    /\ camScale > 0
    /\ camScale - ScrollSum(scrollRead) <= 0

\* C13 as stated: on a tick of pan_camera with the pan button held the
\* camera translation changes by exactly (-sum dx, +sum dy) times the scale,
\* summed over the MouseMotion events sent for that frame only; on a tick
\* with the button not held the translation does not change, and the motion
\* of such a frame never shows up in a later tick.
C13_PanOnlyThisTick ==
    [][ran' = "pan_camera" =>
           IF middle'
           THEN /\ camX' = camX - SumDeltas(motionNow)[1] * camScale
                /\ camY' = camY + SumDeltas(motionNow)[2] * camScale
           ELSE /\ camX' = camX
                /\ camY' = camY]_vars

=============================================================================
